---- MODULE Spec2Model ----
(***************************************************************************)
(* Model of the evaluation pipeline of tre-site-audit:                     *)
(*   lib/claudeAudit.js  runClaudeAudit (cache, token budget, message),    *)
(*                       mergeAuditResults                                 *)
(*   lib/fetchPage.js    fetchPageHtml                                     *)
(*   server.js           the POST /api/audit handler                       *)
(*   lib/preAudit.js     runPreAudit and its temporary files               *)
(*   lib/assetFetcher.js fetchExternalAssets, fetchAsset, resolveCssImports*)
(* Texts are modelled by what the code does to them: a text is a prefix of *)
(* a source text plus an optional appended notice, so substring() and      *)
(* string concatenation are computed, and lengths are exact.               *)
(***************************************************************************)
EXTENDS Integers, Sequences, FiniteSets, TLC

VARIABLES
    \* ---- mergeAuditResults (pure function, SpecMerge) ----
    preFindings,    \* preAuditData.findings : category -> list of findings
    claudeResult,   \* parsed judgment response : path -> list of findings
    merged,         \* value returned by mergeAuditResults
    mergePc,        \* "input" before the call, "merged" after it
    \* ---- page fetch, token budget and message (SpecBudget) ----
    fetchPageImpl,  \* which of the two fetchPageHtml definitions is bound
    pageLen,        \* length of response.text() of the fetched page
    pageHtml,       \* text returned by fetchPageHtml (server.js pageHtml)
    compressedCSS,  \* compressCSS(rawCSS).length
    compressedJS,   \* compressJS(rawJS).length
    lastRun,        \* budget and message of the latest runClaudeAudit call
    prevRun,        \* the same of the call before it
    budgetPc,       \* "fetch": before fetchPageHtml, "audit": before runClaudeAudit
    \* ---- runClaudeAudit and its cache (Spec) ----
    auditCache,     \* the module-level Map: cacheKey -> stored result
    call,           \* per audit: the runClaudeAudit call it is in or has left
    serviceCalls,   \* number of client.messages.create requests sent
    started,        \* number of runClaudeAudit calls entered so far
    completed,      \* history: the calls that returned after a judgment call
    \* ---- the POST /api/audit handler of server.js (SpecServer) ----
    srvPc,          \* where the handler is suspended, or how it ended
    res,            \* the response: "none", "json400", "open" or "ended"
    events,         \* the SSE events written to the response, in order
    tasks,          \* the three promises joined at line 76
    assets,         \* the fetchAsset promises of fetchExternalAssets
    imports,        \* @import fetches of resolveCssImports: left, results
    checker,        \* outcome of the checker subprocess
    judgment,       \* outcome of the runClaudeAudit call of line 102
    report,         \* outcome of buildReport
    stageLog,       \* history: starts and ends of the stages, in order
    \* ---- compressCSS / compressJS (pure functions, SpecCompress) ----
    lang,           \* "css" or "js": which of the two functions is applied
    rawText,        \* the input text, as its lines
    once,           \* compress(rawText)
    twice,          \* compress(compress(rawText))
    compressPc,     \* "input", "once" or "twice"
    \* ---- the two prompt lists of runClaudeAudit (SpecPartition) ----
    checkerOut,     \* preAuditData.findings : category -> list of findings
    needsAI,        \* the list needsAI of lines 254-267
    automated,      \* the list automated of lines 255-267
    partPc,         \* "input" before the loop, "done" after it
    \* ---- the caller's connection (SpecServer) ----
    clientClosed,   \* the caller has closed the event stream
    \* ---- fetchExternalAssets with its timers (SpecAssets) ----
    afPc,           \* "assets": line 149, "imports": line 167, or "returned"
    now,            \* milliseconds since fetchExternalAssets was entered
    afPending,      \* the fetchAsset calls of line 149 still in flight
    gotCss,         \* combinedCss is not empty (line 165)
    fetchStart,     \* when the fetchAsset calls in flight were started
    importsLeft,    \* @import fetches resolveCssImports has still to do
    importsStarted, \* @import fetches started so far
    totalAborted,   \* totalController.signal.aborted (lines 144-145)
    \* ---- concurrent runPreAudit calls and /tmp (SpecTmp) ----
    clock,          \* Date.now()
    files,          \* the files of /tmp: path -> content
    preCall,        \* per call: where it is, its ts, what it returned
    crossed,        \* history: accesses of one call to a file of another
    \* ---- resolveCssImports (SpecImports) ----
    cssUrls,        \* the linked stylesheets (assetFetcher.js 139)
    edges,          \* history: the directives met: sheet, URL, what was done
    visited,        \* the Set visited of lines 111 and 166
    frames,         \* the active resolveCssImports calls: sheet, directives left
    fetched         \* history: the URLs resolveCssImports fetched, in order

mergeVars == <<preFindings, claudeResult, merged, mergePc>>

budgetVars == <<fetchPageImpl, pageLen, pageHtml, compressedCSS, compressedJS,
                lastRun, prevRun, budgetPc>>

cacheVars == <<auditCache, call, serviceCalls, started, completed>>

serverVars == <<srvPc, res, events, tasks, assets, imports, checker,
                judgment, report, stageLog>>

\* the variables of the specifications added after the first three
compressVars == <<lang, rawText, once, twice, compressPc>>

partitionVars == <<checkerOut, needsAI, automated, partPc>>

\* what surrounds the handler: no statement of the handler writes these
watchVars == <<clientClosed>>

timerVars == <<afPc, now, afPending, gotCss, fetchStart, importsLeft,
               importsStarted, totalAborted>>

\* the variables of the first six specifications
earlyVars == <<mergeVars, budgetVars, cacheVars, serverVars, compressVars,
               partitionVars>>

tmpVars == <<clock, files, preCall, crossed>>

importVars == <<cssUrls, edges, visited, frames, fetched>>

\* the variables of the specifications added last
lateVars == <<watchVars, timerVars, tmpVars, importVars>>

restVars == <<serverVars, compressVars, partitionVars, lateVars>>

vars == <<mergeVars, budgetVars, cacheVars, restVars>>

(***************************************************************************)
(* Bounds of the merge model.                                              *)
(***************************************************************************)
NItems == 3          \* size of the checklist (101 in the program)
MaxClaudeLen == 2    \* findings in one judgment response

Items == 1..NItems

\* JS undefined (an absent check text); the check texts are 1..NItems
Undef == 0

\* The category (pre-audit key) of a checklist item: two of the 17
\* categories of categoryMap are modelled.
CategoryOf(i) == IF i % 3 = 0 THEN "ui_color" ELSE "ux_nav"

Categories == {"ux_nav", "ui_color"}

\* categoryMap, restricted to the modelled categories
categoryMap == [c \in Categories |->
                  IF c = "ux_nav" THEN "ux.navigation" ELSE "ui.color"]

Paths == {categoryMap[c] : c \in Categories}

PathOf(i) == categoryMap[CategoryOf(i)]

\* String.prototype.toLowerCase on the status words the checker emits
toLowerCase(s) ==
    CASE s = "PASS" -> "pass"
      [] s = "FAIL" -> "fail"
      [] s = "WARN" -> "warn"
      [] s = "NA"   -> "na"
      [] OTHER      -> s

\* Status words of the inputs.  "" stands for a missing/empty status
\* (falsy in JS).
PreStatuses == {"PASS", "fail", "NEEDS_AI_REVIEW"}
ClaudeStatuses == {"warn", "na", ""}

\* A finding of the checker for item i.  check / check_en are the check
\* texts (the text of item i is written i); note stands for the
\* note/detail/recommendation texts and names who wrote them.
PreFinding(i, st, hasEn) ==
    [check |-> i, check_en |-> IF hasEn THEN i ELSE Undef,
     status |-> st, note |-> "auto"]

\* A finding of the judgment service for item i: the response schema of
\* SYSTEM_PROMPT has check and check_no, and no check_en.
ClaudeFinding(i, st) ==
    [check |-> i, check_en |-> Undef, status |-> st, note |-> "ai"]

\* mergedFinding: the checker's finding converted to the report format
mergedFinding(preFind) ==
    [check |-> preFind.check, check_en |-> preFind.check_en,
     status |-> toLowerCase(preFind.status), note |-> preFind.note]

\* Array.prototype.findIndex with the matcher of the merge, 1-based;
\* 0 stands for -1 (no match).  undefined === undefined is true.
existingIdx(slots, preFind) ==
    LET hits == {k \in 1..Len(slots) :
                    \/ slots[k].check = preFind.check
                    \/ slots[k].check_en = preFind.check_en}
    IN IF hits = {} THEN 0
       ELSE CHOOSE k \in hits : \A j \in hits : k <= j

\* A faulty variant of the loop body, for sensitivity analysis: the
\* checker's finding replaces whatever slot it matches.
MergeOneCheckerWins(slots, preFind) ==
    IF preFind.status = "NEEDS_AI_REVIEW" THEN slots
    ELSE LET idx == existingIdx(slots, preFind) IN
         IF idx > 0 THEN [slots EXCEPT ![idx] = mergedFinding(preFind)]
         ELSE Append(slots, mergedFinding(preFind))

\* A faulty variant of the loop body, for sensitivity analysis: a matched
\* slot is always kept, whatever its status.
MergeOneKeepsMatched(slots, preFind) ==
    IF preFind.status = "NEEDS_AI_REVIEW" THEN slots
    ELSE IF existingIdx(slots, preFind) > 0 THEN slots
         ELSE Append(slots, mergedFinding(preFind))

\* Body of the inner loop of mergeAuditResults for one checker finding
MergeOne(slots, preFind) ==
    IF preFind.status = "NEEDS_AI_REVIEW" THEN slots
    ELSE LET idx == existingIdx(slots, preFind) IN
         IF idx > 0
         THEN IF slots[idx].status = "" \/ slots[idx].status = "na"
              THEN [slots EXCEPT ![idx] = mergedFinding(preFind)]
              ELSE slots
         ELSE Append(slots, mergedFinding(preFind))

\* The inner loop: the findings of one category, in order
RECURSIVE MergeCategory(_, _)
MergeCategory(slots, findings) ==
    IF findings = <<>> THEN slots
    ELSE MergeCategory(MergeOne(slots, Head(findings)), Tail(findings))

\* mergeAuditResults: starts from the judgment structure; every category
\* of the checker that categoryMap knows is merged into its path.
mergeAuditResults(pre, claude) ==
    [p \in Paths |->
        LET cs == {c \in DOMAIN pre : c \in DOMAIN categoryMap /\ categoryMap[c] = p}
        IN IF cs = {} THEN claude[p]
           ELSE MergeCategory(claude[p], pre[CHOOSE c \in cs : TRUE])]

(***************************************************************************)
(* Texts.  A text is a prefix of a source text (kept characters) plus an   *)
(* optional notice appended by the code; its length is exact.              *)
(***************************************************************************)
Text(kept, noticeLen) == [kept |-> kept, notice |-> noticeLen]

TextLen(t) == t.kept + t.notice

\* s.substring(0, n) + notice, for a text s that carries no notice yet
Truncated(s, n, noticeLen) ==
    Text(IF n < s.kept THEN n ELSE s.kept, noticeLen)

(***************************************************************************)
(* fetchPageHtml (lib/fetchPage.js).  The file holds two definitions of    *)
(* the function: one that cuts the page at MAX_HTML_LENGTH and appends a   *)
(* notice, and one that returns the page whole.  Which one a build binds   *)
(* is not determined by the file, so it is chosen in the initial state.    *)
(***************************************************************************)
MAX_HTML_LENGTH == 50000

\* '\n<!-- [truncated at 50k characters] -->'.length
HtmlNoticeLen == 39

fetchPageHtmlTruncating(page) ==
    IF page.kept > MAX_HTML_LENGTH
    THEN Truncated(page, MAX_HTML_LENGTH, HtmlNoticeLen)
    ELSE page

fetchPageHtmlFull(page) == page

fetchPageHtml(impl, page) ==
    IF impl = "truncating" THEN fetchPageHtmlTruncating(page)
    ELSE fetchPageHtmlFull(page)

(***************************************************************************)
(* Token budget of runClaudeAudit.  availableForAssets and jsAlloc can be  *)
(* half-integers (tokens * 2.5), so they are kept doubled (suffix 2).      *)
(***************************************************************************)
ContextTokens == 200000
outputReserve == 32000
safetyMargin == 5000
promptOverheadTokens == 2000
SystemPromptLength == 3692
AuditCriteriaLength == 6379

\* Math.ceil(a / b) for a >= 0, b > 0
CeilDiv(a, b) == (a + b - 1) \div b

Max(a, b) == IF a > b THEN a ELSE b

systemTokensEst == CeilDiv(SystemPromptLength + AuditCriteriaLength, 3)

maxInputTokens == ContextTokens - outputReserve - safetyMargin

\* Math.ceil(html.length / 2.5)
htmlTokensEst(htmlLength) == CeilDiv(2 * htmlLength, 5)

availableTokensForAssets(htmlLength) ==
    maxInputTokens - systemTokensEst - htmlTokensEst(htmlLength)
        - promptOverheadTokens

\* 2 * Math.max(0, availableTokensForAssets * 2.5)
availableForAssets2(htmlLength) ==
    Max(0, availableTokensForAssets(htmlLength) * 5)

\* lengths of the two truncation notices (lines 410 and 414)
CssNoticeLen == 91
JsNoticeLen == 86

\* A faulty variant of the allotment, for sensitivity analysis: the share is
\* rounded to the nearest integer.
cssAllocRounded(avail2, css, total) == (avail2 * css + total) \div (2 * total)

\* Math.floor(availableForAssets * (css / total)), total > 0
cssAlloc(avail2, css, total) == (avail2 * css) \div (2 * total)

\* 2 * (availableForAssets - cssAlloc)
jsAlloc2(avail2, css, total) == avail2 - 2 * cssAlloc(avail2, css, total)

\* the guard of line 404
OverBudget(avail2, css, js) == 2 * (css + js) > avail2 /\ avail2 > 0

\* processedCSS after lines 403-417
processedCSS(avail2, css, js) ==
    IF OverBudget(avail2, css, js) /\ css > cssAlloc(avail2, css, css + js)
    THEN Truncated(Text(css, 0), cssAlloc(avail2, css, css + js), CssNoticeLen)
    ELSE Text(css, 0)

\* processedJS after lines 403-417; substring() floors a half-integer
processedJS(avail2, css, js) ==
    IF OverBudget(avail2, css, js) /\ 2 * js > jsAlloc2(avail2, css, css + js)
    THEN Truncated(Text(js, 0), jsAlloc2(avail2, css, css + js) \div 2, JsNoticeLen)
    ELSE Text(js, 0)

\* The budget and the parts of userMessage that carry payload text
\* (lines 326-457): html is embedded as passed in.
BuildMessage(n, html, css, js) ==
    LET a2 == availableForAssets2(TextLen(html)) IN
    [n |-> n,
     htmlLength |-> TextLen(html),
     avail2 |-> a2,
     over |-> OverBudget(a2, css, js),
     cssAlloc |-> IF css + js > 0 THEN cssAlloc(a2, css, css + js) ELSE 0,
     jsAlloc2 |-> IF css + js > 0 THEN jsAlloc2(a2, css, css + js) ELSE a2,
     html |-> html,
     css |-> processedCSS(a2, css, js),
     js |-> processedJS(a2, css, js)]

NoRun == BuildMessage(0, Text(0, 0), 0, 0)

(***************************************************************************)
(* Bounds and inputs of the budget model.                                  *)
(***************************************************************************)
MaxTokSteps == 3     \* page lengths leaving 0, 100, .. 100*MaxTokSteps tokens
MaxCssUnits == 2     \* compressed CSS of 0, 500, .. 500*MaxCssUnits chars
MaxJsUnits == 1      \* compressed JS of 0, 200, .. 200*MaxJsUnits chars

\* the largest html length that still leaves no token for the assets
ZeroLen == ((maxInputTokens - systemTokensEst - promptOverheadTokens) * 5) \div 2

PageLens == {1000, 60000, ZeroLen + 100, ZeroLen - 2, ZeroLen - 107}
            \cup {ZeroLen - 250 * k : k \in 0..MaxTokSteps}

CssLens == {500 * k : k \in 0..MaxCssUnits}
JsLens == {200 * k : k \in 0..MaxJsUnits}

\* the budget variables while another specification runs
BudgetIdle ==
    /\ fetchPageImpl = "full"
    /\ pageLen = 0
    /\ pageHtml = Text(0, 0)
    /\ compressedCSS = 0
    /\ compressedJS = 0
    /\ lastRun = NoRun
    /\ prevRun = NoRun
    /\ budgetPc = "fetch"

(***************************************************************************)
(* runClaudeAudit and auditCache.  Several audits (requests of the server) *)
(* run concurrently on one event loop: a call runs without interruption    *)
(* from its entry to the await of the judgment request (lines 217-465),    *)
(* and from the response to its return (lines 488-516).                    *)
(***************************************************************************)
MaxCalls == 4        \* runClaudeAudit calls in one behaviour

Audits == {"audit1", "audit2"}

\* The arguments of a call: the target URL, the page text and the rest of
\* the effective payload (final CSS, final JS, pre-audit summary).  A base
\* call and calls that differ from it in one component each.
Args(url, html, css, summary) ==
    [url |-> url, html |-> html,
     rest |-> [css |-> css, js |-> "f()", summary |-> summary],
     apiKey |-> "sk-valid"]

CallArgs == {Args("https://a.test/", "<p>one</p>", "a{}", "1 automated"),
             Args("https://a.test/", "<p>one</p>", "b{}", "1 automated"),
             Args("https://a.test/", "<p>one</p>", "a{}", "2 automated"),
             Args("https://a.test/", "<p>two</p>", "a{}", "1 automated"),
             Args("https://b.test/", "<p>one</p>", "a{}", "1 automated")}

\* two callers that audit the same page with the same HTML, one with a key
\* the judgment service accepts and one with a key it rejects
KeyArgs ==
    {[Args("https://a.test/", "<p>one</p>", "a{}", "1 automated")
         EXCEPT !.apiKey = k] : k \in {"sk-valid", "sk-revoked"}}

\* the judgment service authenticates the request by its key
ServiceAccepts(apiKey) == apiKey = "sk-valid"

\* answers of the judgment service (it is an oracle)
Judgments == {"answer1", "answer2"}

\* crypto.createHash('md5').update(html).digest('hex'): taken to be
\* collision-free on the modelled texts
md5(html) == <<"md5", html>>

\* line 219: url + ':' + md5(html)
cacheKey(url, html) == <<url, ":", md5(html)>>

\* the result of a successful call: the judgment, merged with the
\* pre-audit data of the call that obtained it
Result(j, url, html, rest) ==
    [judgment |-> j, url |-> url, html |-> html, rest |-> rest]

NoResult == Result("", "", "", [css |-> "", js |-> "", summary |-> ""])

IdleCall ==
    [id |-> 0, pc |-> "idle", url |-> "", html |-> "",
     rest |-> [css |-> "", js |-> "", summary |-> ""],
     hit |-> FALSE, ret |-> NoResult, err |-> "", afterThrow |-> FALSE,
     apiKey |-> "", message |-> ""]

\* the places where a call that sent its request can throw: the request
\* (lines 476-486, API error or timeout), JSON.parse (line 505) and
\* mergeAuditResults (line 509); the last two are caught at line 514
ThrowPoints == {"request", "parse", "merge"}

ParseErrorMessage == "Failed to parse Claude response as JSON"

\* the message of the error a call throws: the error of the request is
\* rethrown (lines 477-485); whatever is thrown between lines 505 and 513,
\* by JSON.parse or by mergeAuditResults, is caught at line 514 and
\* replaced by the error of line 515
ThrownMessage(cause) ==
    IF cause = "request" THEN "Claude API error" ELSE ParseErrorMessage

\* a call of another or the same audit has thrown for this key and is the
\* latest call of its audit
ThrownFor(calls, url, html) ==
    \E b \in DOMAIN calls :
        calls[b].pc = "threw" /\ calls[b].url = url /\ calls[b].html = html

\* A faulty variant of the store, for sensitivity analysis: the entry is
\* not stored.
MapSetDropped(m, k, v) == m

\* Map.prototype.set
MapSet(m, k, v) == [x \in DOMAIN m \cup {k} |-> IF x = k THEN v ELSE m[x]]

\* the cache variables while another specification runs
CacheIdle ==
    /\ auditCache = <<>>
    /\ call = [a \in Audits |-> IdleCall]
    /\ serviceCalls = 0
    /\ started = 0
    /\ completed = {}

(***************************************************************************)
(* The POST /api/audit handler (server.js lines 46-120) with runPreAudit   *)
(* (lib/preAudit.js) and fetchExternalAssets (lib/assetFetcher.js) inlined *)
(* at their call sites.  One request is followed from its arrival to the   *)
(* end of its response.  The handler runs without interruption between two *)
(* awaits; a promise it does not await any more may still settle later.    *)
(* Writes and reads of the temporary files are taken to succeed.           *)
(***************************************************************************)
MaxAssets == 2       \* stylesheets and scripts the page links
MaxImports == 1      \* @import fetches of one resolveCssImports run

Tasks == {"pagespeed", "page", "sitemap"}

\* what the collaborator behind each promise of line 76 can do
TaskOutcomes(t) ==
    CASE t = "pagespeed" -> {"ok", "lighthouseError"}
      [] t = "page"      -> {"ok", "notOk", "aborted"}
      [] t = "sitemap"   -> {"found", "notOk", "timedOut", "noUrls"}

\* getPageSpeedData: an error of a Lighthouse run is rethrown
getPageSpeedData(o) == IF o = "ok" THEN "fulfilled" ELSE "rejected"

\* fetchPageHtml: a non-ok status throws, an abort rejects the fetch;
\* there is no catch
fetchPageSettles(o) == IF o = "ok" THEN "fulfilled" ELSE "rejected"

\* analyzeSitemap: a non-ok status and an empty sitemap return early, and
\* every exception is caught at line 140; the result object is returned
analyzeSitemap(o) ==
    [settled |-> "fulfilled", hasSitemap |-> (o = "found"),
     error |-> (o # "found")]

\* .catch(err => null) of server.js line 79
CatchToNull(p) ==
    IF p.settled = "rejected"
    THEN [settled |-> "fulfilled", hasSitemap |-> FALSE, error |-> FALSE]
    ELSE p

\* how the promise of task t settles when its collaborator does o
TaskSettled(t, o) ==
    CASE t = "pagespeed" -> getPageSpeedData(o)
      [] t = "page"      -> fetchPageSettles(o)
      [] t = "sitemap"   -> CatchToNull(analyzeSitemap(o)).settled

TaskState(ts, t) ==
    IF ts[t] \in {"none", "pending"} THEN ts[t] ELSE TaskSettled(t, ts[t])

\* A faulty variant of the join, for sensitivity analysis: the handler
\* goes on as soon as the page is there.
PageJoined(ts) == TaskState(ts, "page") = "fulfilled"

\* Promise.all of line 76 is fulfilled
AllJoined(ts) == \A t \in Tasks : TaskState(ts, t) = "fulfilled"

\* what can happen to one fetchAsset call
AssetOutcomes == {"ok", "notOk", "binary", "threw", "timeout"}

\* A faulty variant of fetchAsset, for sensitivity analysis: a failed or
\* aborted fetch is rethrown.
fetchAssetRethrows(o) ==
    IF o = "ok" THEN "text"
    ELSE IF o \in {"threw", "timeout"} THEN "rejected" ELSE ""

\* fetchAsset: the text of the file, '' for a non-ok status, a binary
\* content type, and for every exception (the abort of the timer included)
fetchAsset(o) == IF o = "ok" THEN "text" ELSE ""

\* the links alternate: odd ones are stylesheets, even ones scripts
AssetKind(k) == IF k % 2 = 1 THEN "css" ELSE "js"

AssetIds == 1..MaxAssets

\* the values the settled fetchAsset promises have
AssetResults(as) ==
    {fetchAsset(as[k]) : k \in {j \in AssetIds : as[j] \in AssetOutcomes}}

\* combinedCss is not empty (line 165)
HasCss(as) ==
    \E k \in AssetIds :
        AssetKind(k) = "css" /\ as[k] \in AssetOutcomes /\ fetchAsset(as[k]) = "text"

\* send (lines 68-70): one event written to the stream
send(evs, type, step, message) ==
    Append(evs, [type |-> type, step |-> step, message |-> message])

\* A faulty variant of the end of the handler, for sensitivity analysis:
\* 'complete' is sent before the report is built.
FinishPartial(evs, b) ==
    IF b = "ok"
    THEN send(send(evs, "progress", 4, ""), "complete", 0, "report")
    ELSE send(send(send(evs, "progress", 4, ""), "complete", 0, "report"),
              "error", 0, "report")

\* lines 104-116: step 4, buildReport, then 'complete', or 'error' if
\* buildReport throws
Finish(evs, b) ==
    IF b = "ok"
    THEN send(send(evs, "progress", 4, ""), "complete", 0, "report")
    ELSE send(send(evs, "progress", 4, ""), "error", 0, "report")

NoImports == [left |-> 0, results |-> <<>>]

\* the handler variables before a request arrives
ServerIdle ==
    /\ srvPc = "idle"
    /\ res = "none"
    /\ events = <<>>
    /\ tasks = [t \in Tasks |-> "none"]
    /\ assets = [k \in AssetIds |-> "none"]
    /\ imports = NoImports
    /\ checker = "none"
    /\ judgment = "none"
    /\ report = "none"
    /\ stageLog = <<>>

\* the compression variables while another specification runs
CompressIdle ==
    /\ lang = "css"
    /\ rawText = <<"blank">>
    /\ once = <<"blank">>
    /\ twice = <<"blank">>
    /\ compressPc = "input"

\* the partition variables while another specification runs
PartitionIdle ==
    /\ checkerOut = [c \in Categories |-> <<>>]
    /\ needsAI = <<>>
    /\ automated = <<>>
    /\ partPc = "input"

\* the connection is open
WatchIdle == clientClosed = FALSE

\* the timed variables while another specification runs
TimerIdle ==
    /\ afPc = "returned"
    /\ now = 0
    /\ afPending = {}
    /\ gotCss = FALSE
    /\ fetchStart = 0
    /\ importsLeft = 0
    /\ importsStarted = 0
    /\ totalAborted = FALSE

\* the calls of runPreAudit
PreAuditCalls == {"call1", "call2"}

IdlePreAudit == [pc |-> "idle", ts |-> 0, result |-> "none"]

\* /tmp before any call of runPreAudit
TmpIdle ==
    /\ clock = 1
    /\ files = <<>>
    /\ preCall = [c \in PreAuditCalls |-> IdlePreAudit]
    /\ crossed = {}

\* the import variables while another specification runs
ImportIdle ==
    /\ cssUrls = {}
    /\ edges = {}
    /\ visited = {}
    /\ frames = <<>>
    /\ fetched = <<>>

\* the variables of the last specifications while another one runs
LateIdle == WatchIdle /\ TimerIdle /\ TmpIdle /\ ImportIdle

\* the variables of the later specifications while another one runs
RestIdle == ServerIdle /\ CompressIdle /\ PartitionIdle /\ LateIdle

(***************************************************************************)
(* Inputs of the merge.                                                    *)
(***************************************************************************)
\* The items of S in checklist order, as a list of findings
RECURSIVE FindingList(_, _, _, _)
FindingList(i, cat, choice, hasEn) ==
    IF i > NItems THEN <<>>
    ELSE IF CategoryOf(i) = cat /\ choice[i] # "omitted"
         THEN <<PreFinding(i, choice[i], hasEn)>>
                  \o FindingList(i + 1, cat, choice, hasEn)
         ELSE FindingList(i + 1, cat, choice, hasEn)

\* A checker output: every item is omitted or carries one status
CheckerOutput(choice, hasEn) ==
    [c \in Categories |-> FindingList(1, c, choice, hasEn)]

\* A judgment response: a list of findings, filed under their paths
SelectPath(s, p) == SelectSeq(s, LAMBDA f : PathOf(f.check) = p)

JudgmentOutput(s) == [p \in Paths |-> SelectPath(s, p)]

ClaudeFindings == {ClaudeFinding(i, st) : i \in Items, st \in ClaudeStatuses}

ClaudeLists == UNION {[1..n -> ClaudeFindings] : n \in 0..MaxClaudeLen}

InitMerge ==
    /\ \E choice \in [Items -> PreStatuses \cup {"omitted"}], hasEn \in BOOLEAN :
          preFindings = CheckerOutput(choice, hasEn)
    /\ \E s \in ClaudeLists : claudeResult = JudgmentOutput(s)
    /\ merged = [p \in Paths |-> <<>>]
    /\ mergePc = "input"
    /\ BudgetIdle
    /\ CacheIdle
    /\ RestIdle

\* runClaudeAudit line 508-510: the merge of the two results
Merge ==
    /\ mergePc = "input"
    /\ merged' = mergeAuditResults(preFindings, claudeResult)
    /\ mergePc' = "merged"
    /\ UNCHANGED <<preFindings, claudeResult>>
    /\ UNCHANGED <<budgetVars, cacheVars, restVars>>

NextMerge == Merge

SpecMerge == InitMerge /\ [][NextMerge]_vars

(***************************************************************************)
(* SpecBudget: successive audits of pages of different sizes with the same *)
(* compressed assets.                                                      *)
(***************************************************************************)
MergeIdle ==
    /\ preFindings = [c \in Categories |-> <<>>]
    /\ claudeResult = [p \in Paths |-> <<>>]
    /\ merged = [p \in Paths |-> <<>>]
    /\ mergePc = "input"

InitBudget ==
    /\ MergeIdle
    /\ CacheIdle
    /\ RestIdle
    /\ fetchPageImpl \in {"truncating", "full"}
    /\ compressedCSS \in CssLens
    /\ compressedJS \in JsLens
    /\ pageLen = 0
    /\ pageHtml = Text(0, 0)
    /\ lastRun = NoRun
    /\ prevRun = NoRun
    /\ budgetPc = "fetch"

\* server.js line 78: the page fetch
FetchPage ==
    /\ budgetPc = "fetch"
    /\ \E n \in PageLens :
          /\ pageLen' = n
          /\ pageHtml' = fetchPageHtml(fetchPageImpl, Text(n, 0))
    /\ budgetPc' = "audit"
    /\ UNCHANGED <<fetchPageImpl, compressedCSS, compressedJS, lastRun, prevRun>>
    /\ UNCHANGED <<mergeVars, cacheVars, restVars>>

\* server.js line 102: runClaudeAudit up to the request
RunClaudeAuditMessage ==
    /\ budgetPc = "audit"
    /\ lastRun' = BuildMessage(1, pageHtml, compressedCSS, compressedJS)
    /\ prevRun' = lastRun
    /\ budgetPc' = "fetch"
    /\ UNCHANGED <<fetchPageImpl, pageLen, pageHtml, compressedCSS, compressedJS>>
    /\ UNCHANGED <<mergeVars, cacheVars, restVars>>

NextBudget == FetchPage \/ RunClaudeAuditMessage

SpecBudget == InitBudget /\ [][NextBudget]_vars

\* fixed prompt estimate F and primary payload estimate P of a run
FixedTokens == systemTokensEst + promptOverheadTokens

\* C4: the CSS and JS text placed in the message, at 2.5 characters per
\* token, fits the ceiling together with F, P, R and S
\* (inequality multiplied by 5).
C4_BudgetConservation ==
    lastRun.n > 0 =>
        2 * (TextLen(lastRun.css) + TextLen(lastRun.js))
          + 5 * (FixedTokens + htmlTokensEst(lastRun.htmlLength)
                 + outputReserve + safetyMargin)
        <= 5 * ContextTokens

\* C5: when nothing is available for the assets, no CSS and no JS text is
\* placed in the message.
C5_ZeroBudgetNoAssets ==
    lastRun.n > 0 /\ lastRun.avail2 = 0 =>
        TextLen(lastRun.css) = 0 /\ TextLen(lastRun.js) = 0

\* C6: a truncated payload, its truncation notice included, is no longer
\* than its allotment.
C6_NoticeInsideAllotment ==
    lastRun.n > 0 =>
        /\ lastRun.css.notice > 0 => TextLen(lastRun.css) <= lastRun.cssAlloc
        /\ lastRun.js.notice > 0 => 2 * TextLen(lastRun.js) <= lastRun.jsAlloc2

\* C7: with the same compressed CSS and JS, a run with no more capacity for
\* the assets than the run before it places no more CSS and no more JS
\* characters in the message.
C7_Monotone ==
    lastRun.n > 0 /\ prevRun.n > 0 /\ lastRun.avail2 <= prevRun.avail2 =>
        /\ TextLen(lastRun.css) <= TextLen(prevRun.css)
        /\ TextLen(lastRun.js) <= TextLen(prevRun.js)

\* C8: the HTML embedded in the message is the full text of the fetched
\* page.
C8_HtmlWhole ==
    lastRun.n > 0 /\ budgetPc = "fetch" => lastRun.html = Text(pageLen, 0)

\* the run of the example: 250 characters available for compressed CSS of
\* 1000 and compressed JS of 200 characters
ExampleRun ==
    /\ lastRun.n > 0
    /\ lastRun.avail2 = 2 * 250
    /\ compressedCSS = 1000
    /\ compressedJS = 200

Init ==
    /\ MergeIdle
    /\ BudgetIdle
    /\ CacheIdle
    /\ RestIdle

\* lines 219-223: the key is in the cache, the stored value is returned
CacheHit(a, args) ==
    /\ call[a].pc # "awaiting"
    /\ started < MaxCalls
    /\ cacheKey(args.url, args.html) \in DOMAIN auditCache
    /\ call' = [call EXCEPT ![a] =
                  [id |-> started + 1, pc |-> "returned", url |-> args.url, html |-> args.html,
                   rest |-> args.rest, hit |-> TRUE,
                   ret |-> auditCache[cacheKey(args.url, args.html)],
                   err |-> "",
                   afterThrow |-> ThrownFor(call, args.url, args.html),
                   apiKey |-> args.apiKey, message |-> ""]]
    /\ started' = started + 1
    /\ UNCHANGED <<auditCache, serviceCalls, completed>>
    /\ UNCHANGED <<mergeVars, budgetVars, restVars>>

\* lines 219-465: the key is not in the cache, the message is built and
\* the request is sent to the judgment service
CacheMiss(a, args) ==
    /\ call[a].pc # "awaiting"
    /\ started < MaxCalls
    /\ cacheKey(args.url, args.html) \notin DOMAIN auditCache
    /\ call' = [call EXCEPT ![a] =
                  [id |-> started + 1, pc |-> "awaiting", url |-> args.url, html |-> args.html,
                   rest |-> args.rest, hit |-> FALSE, ret |-> NoResult,
                   err |-> "",
                   afterThrow |-> ThrownFor(call, args.url, args.html),
                   apiKey |-> args.apiKey, message |-> ""]]
    /\ serviceCalls' = serviceCalls + 1
    /\ started' = started + 1
    /\ UNCHANGED <<auditCache, completed>>
    /\ UNCHANGED <<mergeVars, budgetVars, restVars>>

\* lines 488-513: the response parses; the result is stored and returned
JudgmentReturns(a, j) ==
    /\ call[a].pc = "awaiting"
    /\ ServiceAccepts(call[a].apiKey)
    /\ LET c == call[a]
           r == Result(j, c.url, c.html, c.rest)
       IN /\ auditCache' = MapSet(auditCache, cacheKey(c.url, c.html), r)
          /\ call' = [call EXCEPT ![a].pc = "returned", ![a].ret = r]
          /\ completed' = completed \cup {r}
    /\ UNCHANGED <<serviceCalls, started>>
    /\ UNCHANGED <<mergeVars, budgetVars, restVars>>

\* A faulty variant of the failure path, for sensitivity analysis: the
\* call stores an empty result under its key before it throws.
JudgmentFailsStoring(a, cause) ==
    /\ call[a].pc = "awaiting"
    /\ cause # "request" => ServiceAccepts(call[a].apiKey)
    /\ call' = [call EXCEPT ![a].pc = "threw", ![a].err = cause,
                            ![a].message = ThrownMessage(cause)]
    /\ auditCache' = MapSet(auditCache, cacheKey(call[a].url, call[a].html),
                            NoResult)
    /\ UNCHANGED <<serviceCalls, started, completed>>
    /\ UNCHANGED <<mergeVars, budgetVars, restVars>>

\* lines 476-486 and 514-516: the request fails (a rejected key is one
\* reason), the response does not parse, or the merge raises; the call
\* throws before line 512
JudgmentFails(a, cause) ==
    /\ call[a].pc = "awaiting"
    /\ cause # "request" => ServiceAccepts(call[a].apiKey)
    /\ call' = [call EXCEPT ![a].pc = "threw", ![a].err = cause,
                            ![a].message = ThrownMessage(cause)]
    /\ UNCHANGED <<auditCache, serviceCalls, started, completed>>
    /\ UNCHANGED <<mergeVars, budgetVars, restVars>>

Next ==
    \/ \E a \in Audits, args \in CallArgs : CacheHit(a, args)
    \/ \E a \in Audits, args \in CallArgs : CacheMiss(a, args)
    \/ \E a \in Audits, j \in Judgments : JudgmentReturns(a, j)
    \/ \E a \in Audits, cause \in ThrowPoints : JudgmentFails(a, cause)

Spec == Init /\ [][Next]_vars

\* SpecKeys: the same calls, made by two callers with different keys for
\* the same page
NextKeys ==
    \/ \E a \in Audits, args \in KeyArgs : CacheHit(a, args)
    \/ \E a \in Audits, args \in KeyArgs : CacheMiss(a, args)
    \/ \E a \in Audits, j \in Judgments : JudgmentReturns(a, j)
    \/ \E a \in Audits, cause \in ThrowPoints : JudgmentFails(a, cause)

SpecKeys == Init /\ [][NextKeys]_vars

(***************************************************************************)
(* Claims about the cache.                                                 *)
(***************************************************************************)
\* a call with the same URL and a byte-identical effective payload has
\* completed after a judgment call
PriorCompleted(c) ==
    \E d \in completed : d.url = c.url /\ d.html = c.html /\ d.rest = c.rest

C10_MissOnAnyDifference ==
    \A a \in Audits :
        call[a].pc = "returned" /\ call[a].hit =>
            /\ call[a].ret.url = call[a].url
            /\ call[a].ret.html = call[a].html
            /\ call[a].ret.rest = call[a].rest

\* the audit whose call is entered by the step
Enters(a) == started' = started + 1 /\ call'[a].id = started'

\* C11: a call that throws (request error or timeout, unparseable
\* response, exception in the merge) leaves auditCache unchanged; every
\* cache entry is the result of a call that returned; and a call entered
\* while its key has no entry sends a request to the judgment service.
C11_FailureNeverCached ==
    [][/\ \A a \in Audits :
             call[a].pc = "awaiting" /\ call'[a].pc = "threw"
                 => auditCache' = auditCache
       /\ \A k \in DOMAIN auditCache' :
             /\ auditCache'[k] \in completed'
             /\ k = cacheKey(auditCache'[k].url, auditCache'[k].html)
       /\ \A a \in Audits :
             Enters(a) /\ cacheKey(call'[a].url, call'[a].html)
                             \notin DOMAIN auditCache
                 => /\ call'[a].pc = "awaiting"
                    /\ serviceCalls' = serviceCalls + 1]_vars

\* C11 witness: a call threw in the merge, its key has no cache entry, and
\* a call entered afterwards with the same key has sent a second request.
C11_Witness ==
    \E a, b \in Audits :
        /\ a # b
        /\ call[b].pc = "threw"
        /\ call[b].err = "merge"
        /\ call[a].pc = "awaiting"
        /\ call[a].afterThrow
        /\ call[a].url = call[b].url
        /\ call[a].html = call[b].html
        /\ call[a].id > call[b].id
        /\ cacheKey(call[b].url, call[b].html) \notin DOMAIN auditCache
        /\ serviceCalls >= 2

\* C12: the cache is write-once per key: a key that has a stored result
\* keeps that result in every later state.
C12_WriteOncePerKey ==
    [][\A k \in DOMAIN auditCache :
          k \in DOMAIN auditCache' /\ auditCache'[k] = auditCache[k]]_vars

(***************************************************************************)
(* Claims about mergeAuditResults.                                         *)
(***************************************************************************)
\* the slots (path, index) of a result structure
SlotsOf(r) == {<<p, k>> : p \in Paths, k \in 1..MaxClaudeLen + NItems} \cap
              UNION {{<<p, k>> : k \in 1..Len(r[p])} : p \in Paths}

\* the slots of the merged result that hold a finding for item i
MergedSlotsFor(i) == {s \in SlotsOf(merged) : merged[s[1]][s[2]].check = i}

\* the checker's findings, of every category
CheckerFindings ==
    UNION {{preFindings[c][k] : k \in 1..Len(preFindings[c])} : c \in Categories}

\* the checker decided item i (a status other than NEEDS_AI_REVIEW)
CheckerDecided(i) ==
    \E f \in CheckerFindings : f.check = i /\ f.status # "NEEDS_AI_REVIEW"

\* the judgment service returned a finding for item i
ServiceAnswered(i) ==
    \E s \in SlotsOf(claudeResult) : claudeResult[s[1]][s[2]].check = i

\* C1: the merged result holds exactly NItems findings, exactly one for
\* every checklist item, whatever the checker and the judgment service
\* returned.
C1_Coverage ==
    mergePc = "merged" =>
        /\ Cardinality(SlotsOf(merged)) = NItems
        /\ \A i \in Items : Cardinality(MergedSlotsFor(i)) = 1

\* C2 (as claimed): an item the checker decided and the judgment service
\* also answered carries the checker's verdict in the merged result.
C2_CheckerWins ==
    mergePc = "merged" =>
        \A i \in Items : CheckerDecided(i) /\ ServiceAnswered(i) =>
            \A s \in MergedSlotsFor(i) :
                \E f \in CheckerFindings :
                    /\ f.check = i
                    /\ merged[s[1]][s[2]].status = toLowerCase(f.status)

\* C2 (amended): the judgment service's assessment takes precedence.  Every
\* finding the service returned with a verdict other than 'na' or empty is
\* kept unchanged in its slot; a slot of the service's response is replaced
\* only where its status is 'na' or empty, and then by the converted
\* finding of a decided checker finding.
C2_ServiceWinsUnlessNa ==
    mergePc = "merged" =>
        \A s \in SlotsOf(claudeResult) :
            LET old == claudeResult[s[1]][s[2]] IN
            /\ s \in SlotsOf(merged)
            /\ old.status \notin {"", "na"} => merged[s[1]][s[2]] = old
            /\ merged[s[1]][s[2]] # old =>
                  /\ old.status \in {"", "na"}
                  /\ \E f \in CheckerFindings :
                        /\ f.status # "NEEDS_AI_REVIEW"
                        /\ merged[s[1]][s[2]] = mergedFinding(f)

\* C2 witness: the checker decided an item (PASS), the service answered it
\* with 'warn', and the merged slot still holds the service's finding;
\* another slot with status 'na' was replaced by a checker finding.
C2_Witness ==
    /\ mergePc = "merged"
    /\ \E s \in SlotsOf(claudeResult) :
          /\ claudeResult[s[1]][s[2]].status = "warn"
          /\ CheckerDecided(claudeResult[s[1]][s[2]].check)
          /\ merged[s[1]][s[2]] = claudeResult[s[1]][s[2]]
    /\ \E s \in SlotsOf(claudeResult) :
          /\ claudeResult[s[1]][s[2]].status = "na"
          /\ merged[s[1]][s[2]].note = "auto"

\* C3: an item that is neither among the checker's decided findings nor
\* among the service's findings is present in the merged result with
\* verdict 'na'.
C3_MissingSynthesizedNa ==
    mergePc = "merged" =>
        \A i \in Items : ~CheckerDecided(i) /\ ~ServiceAnswered(i) =>
            \E s \in MergedSlotsFor(i) : merged[s[1]][s[2]].status = "na"

\* the decided checker findings whose match in the judgment response, as
\* lines 574-576 find it, is slot k of path p
MatchedTo(p, k) ==
    {f \in CheckerFindings :
        /\ f.status # "NEEDS_AI_REVIEW"
        /\ PathOf(f.check) = p
        /\ existingIdx(claudeResult[p], f) = k}

RECURSIVE MatchPairs(_, _)
MatchPairs(slots, findings) ==
    IF findings = <<>> THEN {}
    ELSE LET f == Head(findings)
             idx == existingIdx(slots, f)
         IN (IF f.status # "NEEDS_AI_REVIEW" /\ idx > 0
             THEN {<<f, slots[idx]>>} ELSE {})
            \cup MatchPairs(MergeOne(slots, f), Tail(findings))

\* C28: the slot a checker finding is matched to, and is then suppressed
\* by or replaces, holds a finding for the same checklist item, whether or
\* not the checker's findings carry check_en.
C28_MatchSameItem ==
    mergePc = "merged" =>
        \A c \in Categories :
            \A pr \in MatchPairs(claudeResult[categoryMap[c]], preFindings[c]) :
                pr[2].check = pr[1].check

C25_MergeDefectDistinct ==
    \A a \in Audits :
        (call[a].pc = "threw" /\ call[a].err = "merge") =>
            call[a].message # ParseErrorMessage

\* C29: a call returns a result only to a caller whose key the judgment
\* service accepts; a caller with a rejected key never receives the
\* evaluation that was obtained with another caller's key.
C29_ResultOnlyForOwnKey ==
    \A a \in Audits :
        call[a].pc = "returned" => ServiceAccepts(call[a].apiKey)

(***************************************************************************)
(* SpecServer: one request to POST /api/audit.                             *)
(***************************************************************************)
otherThanServer == <<mergeVars, budgetVars, cacheVars, compressVars,
                     partitionVars, lateVars>>

InitServer ==
    /\ MergeIdle
    /\ BudgetIdle
    /\ CacheIdle
    /\ ServerIdle
    /\ CompressIdle
    /\ PartitionIdle
    /\ LateIdle

\* lines 111-119: the catch block sends 'error', finally ends the response
Catch(cause) ==
    /\ events' = send(events, "error", 0, cause)
    /\ res' = "ended"
    /\ srvPc' = "ended"

\* lines 47-76: validation, the SSE head, step 1 and the start of the three
\* collection promises
Request(v) ==
    /\ srvPc = "idle"
    /\ IF v = "ok"
       THEN /\ res' = "open"
            /\ events' = send(events, "progress", 1, "")
            /\ tasks' = [t \in Tasks |-> "pending"]
            /\ stageLog' = <<<<"start", "collect">>>>
            /\ srvPc' = "collect"
       ELSE /\ res' = "json400"
            /\ srvPc' = "refused"
            /\ UNCHANGED <<events, tasks, stageLog>>
    /\ UNCHANGED <<assets, imports, checker, judgment, report>>
    /\ UNCHANGED otherThanServer

\* One of the promises of line 76 settles.  While the handler awaits the
\* join, a rejection takes it to the catch block, and the last fulfilment
\* takes it through lines 85-92 into runPreAudit and fetchExternalAssets
\* (preAudit.js 19-30, assetFetcher.js 139-152).
TaskSettles(t, o) ==
    /\ tasks[t] = "pending"
    /\ o \in TaskOutcomes(t)
    /\ tasks' = [tasks EXCEPT ![t] = o]
    /\ IF srvPc = "collect" /\ TaskSettled(t, o) = "rejected"
       THEN /\ Catch(t)
            /\ UNCHANGED <<assets, stageLog>>
       ELSE IF srvPc = "collect" /\ AllJoined(tasks')
       THEN /\ \E n \in 0..MaxAssets :
                  assets' = [k \in AssetIds |-> IF k <= n THEN "pending" ELSE "none"]
            /\ events' = send(events, "progress", 2, "")
            /\ stageLog' = stageLog \o <<<<"end", "collect">>, <<"start", "preAudit">>>>
            /\ srvPc' = "assets"
            /\ UNCHANGED res
       ELSE UNCHANGED <<srvPc, res, events, assets, stageLog>>
    /\ UNCHANGED <<imports, checker, judgment, report>>
    /\ UNCHANGED otherThanServer

\* assetFetcher.js 77-106: one fetchAsset call settles
AssetSettles(k, o) ==
    /\ assets[k] = "pending"
    /\ assets' = [assets EXCEPT ![k] = o]
    /\ UNCHANGED <<srvPc, res, events, tasks, imports, checker, judgment,
                   report, stageLog>>
    /\ UNCHANGED otherThanServer

\* the checker subprocess is started (preAudit.js 32-45)
StartChecker == srvPc' = "checker"

\* assetFetcher.js 149-168: the join of the fetchAsset promises; a
\* rejection would leave through preAudit.js 65-70.  With CSS text the
\* @import directives are resolved, otherwise the files are written and the
\* checker is started.
FetchExternalAssetsJoin ==
    /\ srvPc = "assets"
    /\ IF "rejected" \in AssetResults(assets)
       THEN /\ Catch("preAudit")
            /\ UNCHANGED imports
       ELSE /\ \A k \in AssetIds : assets[k] # "pending"
            /\ \E m \in 0..MaxImports :
                  /\ m > 0 => HasCss(assets)
                  /\ imports' = [left |-> m, results |-> <<>>]
                  /\ IF m > 0 THEN srvPc' = "imports" ELSE StartChecker
            /\ UNCHANGED <<res, events>>
    /\ UNCHANGED <<tasks, assets, checker, judgment, report, stageLog>>
    /\ UNCHANGED otherThanServer

\* assetFetcher.js 116-129: the fetch of one @import settles; an imported
\* sheet with text may bring a further import.  After the last one
\* fetchExternalAssets returns and the checker is started.
ImportSettles(o) ==
    /\ srvPc = "imports"
    /\ imports.left > 0
    /\ \E more \in 0..1 :
          /\ more = 1 => fetchAsset(o) = "text"
          /\ Len(imports.results) + imports.left + more <= MaxImports
          /\ imports' = [left |-> imports.left - 1 + more,
                         results |-> Append(imports.results, o)]
    /\ IF imports'.left = 0 THEN StartChecker ELSE UNCHANGED srvPc
    /\ UNCHANGED <<res, events, tasks, assets, checker, judgment, report,
                   stageLog>>
    /\ UNCHANGED otherThanServer

\* preAudit.js 42-71 and server.js 92-102: the checker exits.  A non-zero
\* exit rejects execAsync and unparseable output makes JSON.parse throw;
\* both are rethrown as 'Pre-audit failed'.  Otherwise step 3 is sent and
\* runClaudeAudit is called.
CheckerExits(o) ==
    /\ srvPc = "checker"
    /\ checker' = o
    /\ IF o = "ok"
       THEN /\ events' = send(events, "progress", 3, "")
            /\ stageLog' = stageLog \o <<<<"end", "preAudit">>, <<"start", "claude">>>>
            /\ judgment' = "pending"
            /\ srvPc' = "judging"
            /\ UNCHANGED res
       ELSE /\ Catch("preAudit")
            /\ UNCHANGED <<judgment, stageLog>>
    /\ UNCHANGED <<tasks, assets, imports, report>>
    /\ UNCHANGED otherThanServer

\* server.js 102, 111-119: runClaudeAudit throws
ClaudeAuditThrows ==
    /\ srvPc = "judging"
    /\ judgment' = "threw"
    /\ Catch("judgment")
    /\ UNCHANGED <<tasks, assets, imports, checker, report, stageLog>>
    /\ UNCHANGED otherThanServer

\* server.js 102-119: runClaudeAudit returns; step 4, buildReport and the
\* terminal event; the response is ended
ClaudeAuditReturns(b) ==
    /\ srvPc = "judging"
    /\ judgment' = "ok"
    /\ report' = b
    /\ events' = Finish(events, b)
    /\ stageLog' = stageLog \o <<<<"end", "claude">>, <<"start", "report">>>>
                     \o (IF b = "ok" THEN <<<<"end", "report">>>> ELSE <<>>)
    /\ res' = "ended"
    /\ srvPc' = "ended"
    /\ UNCHANGED <<tasks, assets, imports, checker>>
    /\ UNCHANGED otherThanServer

\* The caller closes the event stream while the response is open.  The
\* handler registers no listener on the request or the response (server.js
\* 46-120 has no req.on or res.on), so no statement of it runs and none of
\* its variables changes; a later res.write on the closed stream is dropped.
ClientCloses ==
    /\ res = "open"
    /\ ~clientClosed
    /\ clientClosed' = TRUE
    /\ UNCHANGED serverVars
    /\ UNCHANGED <<mergeVars, budgetVars, cacheVars, compressVars, partitionVars,
                   timerVars, tmpVars, importVars>>

NextServer ==
    \/ \E v \in {"ok", "missing", "badUrl"} : Request(v)
    \/ \E t \in Tasks, o \in {"ok", "lighthouseError", "notOk", "aborted",
                              "found", "timedOut", "noUrls"} : TaskSettles(t, o)
    \/ \E k \in AssetIds, o \in AssetOutcomes : AssetSettles(k, o)
    \/ FetchExternalAssetsJoin
    \/ \E o \in AssetOutcomes : ImportSettles(o)
    \/ \E o \in {"ok", "nonzero", "malformed"} : CheckerExits(o)
    \/ ClaudeAuditThrows
    \/ \E b \in {"ok", "threw"} : ClaudeAuditReturns(b)
    \/ ClientCloses

SpecServer == InitServer /\ [][NextServer]_vars

\* The handler under the scheduling the code provides.  The event loop runs
\* every continuation that is ready, and a call that carries a timer
\* settles: the page fetch (fetchPage.js 56-57, 30 s), the sitemap fetch
\* (sitemapAnalyzer.js 47-48, 10 s), every fetchAsset call (assetFetcher.js
\* 78-79, 15 s) and the judgment request (claudeAudit.js 241-246, 300 s, one
\* retry); Lighthouse is taken to settle through its own load limits.  The
\* checker subprocess is started by execAsync with the option maxBuffer
\* only (preAudit.js 42-45): nothing makes it exit.
FairServer ==
    /\ WF_vars(\E v \in {"ok", "missing", "badUrl"} : Request(v))
    /\ WF_vars(\E t \in Tasks, o \in {"ok", "lighthouseError", "notOk", "aborted",
                                     "found", "timedOut", "noUrls"} : TaskSettles(t, o))
    /\ WF_vars(\E k \in AssetIds, o \in AssetOutcomes : AssetSettles(k, o))
    /\ WF_vars(FetchExternalAssetsJoin)
    /\ WF_vars(\E o \in AssetOutcomes : ImportSettles(o))
    /\ WF_vars(ClaudeAuditThrows \/ \E b \in {"ok", "threw"} : ClaudeAuditReturns(b))

SpecServerLive == InitServer /\ [][NextServer]_vars /\ FairServer

(***************************************************************************)
(* Claims about the handler.                                               *)
(***************************************************************************)
StageOrder ==
    <<<<"start", "collect">>, <<"end", "collect">>,
      <<"start", "preAudit">>, <<"end", "preAudit">>,
      <<"start", "claude">>, <<"end", "claude">>,
      <<"start", "report">>, <<"end", "report">>>>

IsPrefix(a, b) == Len(a) <= Len(b) /\ \A i \in 1..Len(a) : a[i] = b[i]

\* the promise of task t is fulfilled
Fulfilled(t) ==
    tasks[t] \in TaskOutcomes(t) /\ TaskSettled(t, tasks[t]) = "fulfilled"

TerminalEvents ==
    {i \in 1..Len(events) : events[i].type \in {"complete", "error"}}

\* C13: the stages start and end in the order collection, pre-audit,
\* Claude audit, report, each after the one before it has ended: the
\* pre-audit starts only when the three collection promises are fulfilled,
\* the Claude audit only when every asset fetch has settled and the checker
\* has succeeded, the report only when the Claude audit has returned.  The
\* k-th event is the progress event of step k, for k up to 4, sent when
\* stage k starts, and 'complete' is the fifth event.
C13_StrictStageOrder ==
    /\ IsPrefix(stageLog, StageOrder)
    /\ \A i \in 1..Len(events) :
          /\ events[i].type = "progress" =>
                /\ events[i].step = i
                /\ i <= 4
                /\ Len(stageLog) >= 2 * i - 1
          /\ events[i].type = "complete" =>
                i = 5 /\ events[4].type = "progress" /\ stageLog = StageOrder
    /\ Len(stageLog) >= 3 => \A t \in Tasks : Fulfilled(t)
    /\ Len(stageLog) >= 5 =>
          /\ \A k \in AssetIds : assets[k] # "pending"
          /\ imports.left = 0
          /\ checker = "ok"
    /\ Len(stageLog) >= 7 => judgment = "ok"
    /\ Len(stageLog) = 8 => report = "ok"

\* C13 witness: an audit that went through the four stages and sent
\* 'complete' as its fifth event.
C13_Witness ==
    /\ stageLog = StageOrder
    /\ Len(events) = 5
    /\ events[5].type = "complete"
    /\ \A i \in 1..4 : events[i] = [type |-> "progress", step |-> i, message |-> ""]

C15_CheckerFailureDegrades ==
    checker \in {"nonzero", "malformed"} =>
        /\ judgment # "none"
        /\ \A i \in 1..Len(events) : events[i].type # "error"

\* C16: the sitemap promise is never rejected and no fetchAsset call
\* rejects, whatever the fetches do; the join of line 76 goes on once
\* Lighthouse and the page fetch have succeeded and the sitemap analysis
\* has settled; and every 'error' event names a collaborator other than the
\* asset and sitemap fetches, one that did fail.
C16_EnrichmentNeverFatal ==
    /\ TaskState(tasks, "sitemap") # "rejected"
    /\ \A k \in AssetIds : assets[k] \in AssetOutcomes =>
          fetchAsset(assets[k]) \in {"text", ""}
    /\ (Fulfilled("pagespeed") /\ Fulfilled("page")
           /\ tasks["sitemap"] \in TaskOutcomes("sitemap")) => srvPc # "collect"
    /\ \A i \in 1..Len(events) : events[i].type = "error" =>
          \/ /\ events[i].message \in {"pagespeed", "page"}
             /\ tasks[events[i].message] \in TaskOutcomes(events[i].message)
             /\ ~Fulfilled(events[i].message)
          \/ events[i].message = "preAudit" /\ checker \in {"nonzero", "malformed"}
          \/ events[i].message = "judgment" /\ judgment = "threw"
          \/ events[i].message = "report" /\ report = "threw"

\* C16 witness: the sitemap fetch timed out, a script fetch timed out, an
\* @import fetch returned a non-success status, and the audit still ended
\* with 'complete'.
C16_Witness ==
    /\ tasks["sitemap"] = "timedOut"
    /\ assets[1] = "ok"
    /\ assets[2] = "timeout"
    /\ imports.results = <<"notOk">>
    /\ Len(events) = 5
    /\ events[5].type = "complete"

\* the stages started by the step from one state to the next
StartedStages ==
    {stageLog'[i][2] : i \in {j \in (Len(stageLog) + 1)..Len(stageLog') :
                                  stageLog'[j][1] = "start"}}

\* C21: once the caller has closed the event stream, no stage is started
\* for that audit and runClaudeAudit, with its judgment request and its
\* cache write, is not called.
C21_AbortStopsPipeline ==
    [][clientClosed =>
          /\ StartedStages = {}
          /\ (judgment = "none" => judgment' = "none")]_vars

\* C26: every audit reaches a terminal event: the request is refused with
\* status 400 or its stream ends with 'complete' or 'error'.
C26_EveryAuditTerminates ==
    <>(srvPc = "refused" \/ (srvPc = "ended" /\ TerminalEvents # {}))

(***************************************************************************)
(* SpecAssets: one call of fetchExternalAssets (assetFetcher.js 138-193)   *)
(* with its timers.  Time is counted in milliseconds since the entry and   *)
(* passes in steps of a third of FETCH_TIMEOUT while a fetch is in flight. *)
(* A timer callback runs when it is due: time does not pass a deadline     *)
(* before the callback has run.                                            *)
(***************************************************************************)
MaxImportChain == 4     \* @import fetches of one resolveCssImports run

FETCH_TIMEOUT == 15000
TOTAL_TIMEOUT == 60000

TickMs == FETCH_TIMEOUT \div 3

otherThanTimer == <<earlyVars, watchVars, tmpVars, importVars>>

\* lines 139-152: the links are extracted, the total timer is set and every
\* fetchAsset call is started
InitAssets ==
    /\ MergeIdle
    /\ BudgetIdle
    /\ CacheIdle
    /\ ServerIdle
    /\ CompressIdle
    /\ PartitionIdle
    /\ WatchIdle
    /\ TmpIdle
    /\ ImportIdle
    /\ afPc = "assets"
    /\ now = 0
    /\ \E n \in 0..MaxAssets : afPending = 1..n
    /\ gotCss = FALSE
    /\ fetchStart = 0
    /\ importsLeft = 0
    /\ importsStarted = 0
    /\ totalAborted = FALSE

\* a fetchAsset call in flight (lines 78-82): every one of line 149, or the
\* one resolveCssImports awaits at line 122
InFlight == (afPc = "assets" /\ afPending # {}) \/ afPc = "imports"

\* lines 78-79 and 101-105: a fetch that has not settled when its own timer
\* is due is aborted then and settles with ''; before that it settles with
\* what the server sends or with another exception
SettlesNow(o) ==
    IF now - fetchStart >= FETCH_TIMEOUT THEN o = "timeout" ELSE o # "timeout"

\* time passes while a fetch is in flight
Tick ==
    /\ InFlight
    /\ now - fetchStart < FETCH_TIMEOUT
    /\ now < TOTAL_TIMEOUT \/ totalAborted
    /\ now' = now + TickMs
    /\ UNCHANGED <<afPc, afPending, gotCss, fetchStart, importsLeft,
                   importsStarted, totalAborted>>
    /\ UNCHANGED otherThanTimer

\* lines 144-145: the callback of the total timer, totalController.abort().
\* The signal of totalController is passed to no fetch (fetchAsset, lines
\* 78-89, uses the signal of its own controller), so nothing listens to it.
TotalTimeoutFires ==
    /\ afPc # "returned"
    /\ now >= TOTAL_TIMEOUT
    /\ ~totalAborted
    /\ totalAborted' = TRUE
    /\ UNCHANGED <<afPc, now, afPending, gotCss, fetchStart, importsLeft,
                   importsStarted>>
    /\ UNCHANGED otherThanTimer

\* lines 77-106, 149-162: one of the parallel fetchAsset calls settles
AssetFetched(k, o) ==
    /\ afPc = "assets"
    /\ k \in afPending
    /\ SettlesNow(o)
    /\ afPending' = afPending \ {k}
    /\ gotCss' = (gotCss \/ (AssetKind(k) = "css" /\ fetchAsset(o) = "text"))
    /\ UNCHANGED <<afPc, now, fetchStart, importsLeft, importsStarted,
                   totalAborted>>
    /\ UNCHANGED otherThanTimer

\* lines 149-168, 190-192: the join of line 149; with CSS text
\* resolveCssImports is called and starts the fetch of the first of the n
\* @import directives it finds, otherwise fetchExternalAssets returns
AssetsJoined(n) ==
    /\ afPc = "assets"
    /\ afPending = {}
    /\ n > 0 => gotCss
    /\ IF n > 0
       THEN /\ afPc' = "imports"
            /\ importsLeft' = n
            /\ importsStarted' = 1
            /\ fetchStart' = now
       ELSE /\ afPc' = "returned"
            /\ UNCHANGED <<importsLeft, importsStarted, fetchStart>>
    /\ UNCHANGED <<now, afPending, gotCss, totalAborted>>
    /\ UNCHANGED otherThanTimer

\* lines 116-129: the fetch of one @import settles; an imported sheet with
\* text may hold a further @import, which the recursive call fetches next;
\* then the loop goes to the next directive, and after the last one
\* fetchExternalAssets returns
ImportFetched(o, more) ==
    /\ afPc = "imports"
    /\ SettlesNow(o)
    /\ more = 1 => fetchAsset(o) = "text"
    /\ importsStarted + (importsLeft - 1) + more <= MaxImportChain
    /\ importsLeft' = importsLeft - 1 + more
    /\ IF importsLeft' = 0
       THEN /\ afPc' = "returned"
            /\ UNCHANGED <<fetchStart, importsStarted>>
       ELSE /\ fetchStart' = now
            /\ importsStarted' = importsStarted + 1
            /\ UNCHANGED afPc
    /\ UNCHANGED <<now, afPending, gotCss, totalAborted>>
    /\ UNCHANGED otherThanTimer

NextAssets ==
    \/ Tick
    \/ TotalTimeoutFires
    \/ \E k \in AssetIds, o \in AssetOutcomes : AssetFetched(k, o)
    \/ \E n \in 0..MaxImportChain : AssetsJoined(n)
    \/ \E o \in AssetOutcomes, more \in 0..1 : ImportFetched(o, more)

SpecAssets == InitAssets /\ [][NextAssets]_vars

\* C24: fetchExternalAssets returns no later than the total timeout: the
\* firing of the total timer ends every fetch in flight, so the call is
\* never still running, with a fetch in flight, after TOTAL_TIMEOUT
\* milliseconds.
C24_AggregateCeiling ==
    now > TOTAL_TIMEOUT => (afPc = "returned" /\ ~InFlight)

(***************************************************************************)
(* SpecTmp: two concurrent calls of runPreAudit (preAudit.js 18-72) and    *)
(* the files they keep in /tmp.  A file is named by its kind and the ts of *)
(* the call; its content records the call that wrote it.  The writes, the  *)
(* checker and the unlinks are asynchronous, so the steps of the two calls *)
(* interleave at every await.  The asset fetch is taken to succeed.        *)
(***************************************************************************)
MaxClock == 2        \* values Date.now() takes while the calls start

InputKinds == {"html", "css", "js"}

\* lines 20-23: /tmp/audit-<ts>.html, .css, .js and /tmp/pre-audit-<ts>.json
tmpPath(kind, ts) == <<kind, ts>>

PathsOf(ts) == {tmpPath(k, ts) : k \in InputKinds \cup {"out"}}

\* fs.writeFile: creates the file or replaces its content
writeFile(fs, path, content) ==
    [x \in DOMAIN fs \cup {path} |-> IF x = path THEN content ELSE fs[x]]

\* fs.unlink of every path, with .catch(() => {}) for a missing file
unlinkAll(fs, paths) == [x \in DOMAIN fs \ paths |-> fs[x]]

\* the files among paths that exist and were written by another call than c
OthersFiles(fs, paths, c) == {x \in paths \cap DOMAIN fs : fs[x].owner # c}

Crossings(fs, paths, c, verb) ==
    {<<c, verb, fs[x].owner, x[1]>> : x \in OthersFiles(fs, paths, c)}

otherThanTmp == <<earlyVars, watchVars, timerVars, importVars>>

InitTmp ==
    /\ MergeIdle
    /\ BudgetIdle
    /\ CacheIdle
    /\ ServerIdle
    /\ CompressIdle
    /\ PartitionIdle
    /\ WatchIdle
    /\ TimerIdle
    /\ ImportIdle
    /\ TmpIdle

\* a millisecond passes
ClockTick ==
    /\ clock < MaxClock
    /\ clock' = clock + 1
    /\ UNCHANGED <<files, preCall, crossed>>
    /\ UNCHANGED otherThanTmp

\* lines 19-29: ts = Date.now(), the four paths, and the start of the asset
\* fetch and of the write of the HTML file
StartPreAudit(c) ==
    /\ preCall[c].pc = "idle"
    /\ preCall' = [preCall EXCEPT ![c] = [pc |-> "htmlWrite", ts |-> clock, result |-> "none"]]
    /\ UNCHANGED <<clock, files, crossed>>
    /\ UNCHANGED otherThanTmp

\* line 29: the HTML file is written
HtmlWritten(c) ==
    /\ preCall[c].pc = "htmlWrite"
    /\ LET path == tmpPath("html", preCall[c].ts) IN
       /\ files' = writeFile(files, path, [owner |-> c])
       /\ crossed' = crossed \cup Crossings(files, {path}, c, "overwrite")
    /\ preCall' = [preCall EXCEPT ![c].pc = "assets"]
    /\ UNCHANGED clock
    /\ UNCHANGED otherThanTmp

\* lines 27-36: the join of line 27; the writes of the CSS and the JS file
\* are started
AssetsFetchedForChecker(c) ==
    /\ preCall[c].pc = "assets"
    /\ preCall' = [preCall EXCEPT ![c].pc = "cssJsWrite"]
    /\ UNCHANGED <<clock, files, crossed>>
    /\ UNCHANGED otherThanTmp

\* lines 33-45: the CSS and the JS file are written and the checker is
\* started on the three input paths
CssJsWritten(c) ==
    /\ preCall[c].pc = "cssJsWrite"
    /\ LET ps == {tmpPath("css", preCall[c].ts), tmpPath("js", preCall[c].ts)} IN
       /\ files' = writeFile(writeFile(files, tmpPath("css", preCall[c].ts), [owner |-> c]),
                             tmpPath("js", preCall[c].ts), [owner |-> c])
       /\ crossed' = crossed \cup Crossings(files, ps, c, "overwrite")
    /\ preCall' = [preCall EXCEPT ![c].pc = "checking"]
    /\ UNCHANGED clock
    /\ UNCHANGED otherThanTmp

\* lines 42-52 and 65: the checker reads its three input files and writes
\* the output file, whose content is computed from what it read; a missing
\* input makes it exit non-zero, which rejects execAsync
CheckerRuns(c) ==
    /\ preCall[c].pc = "checking"
    /\ LET ts == preCall[c].ts
           ins == {tmpPath(k, ts) : k \in InputKinds}
       IN IF ins \subseteq DOMAIN files
          THEN /\ files' = writeFile(files, tmpPath("out", ts),
                                     [owner |-> c,
                                      from |-> [k \in InputKinds |-> files[tmpPath(k, ts)].owner]])
               /\ crossed' = crossed \cup Crossings(files, ins, c, "read")
                                      \cup Crossings(files, {tmpPath("out", ts)}, c, "overwrite")
               /\ preCall' = [preCall EXCEPT ![c].pc = "reading"]
          ELSE /\ preCall' = [preCall EXCEPT ![c].pc = "cleanupAfterError"]
               /\ crossed' = crossed \cup Crossings(files, ins, c, "read")
               /\ UNCHANGED files
    /\ UNCHANGED clock
    /\ UNCHANGED otherThanTmp

\* lines 52-61 and 65: the output file is read and parsed, and the unlinks
\* are started; a missing file makes readFile throw
OutputRead(c) ==
    /\ preCall[c].pc = "reading"
    /\ LET path == tmpPath("out", preCall[c].ts) IN
       IF path \in DOMAIN files
       THEN /\ preCall' = [preCall EXCEPT ![c].pc = "cleanup", ![c].result = files[path]]
            /\ crossed' = crossed \cup Crossings(files, {path}, c, "read")
       ELSE /\ preCall' = [preCall EXCEPT ![c].pc = "cleanupAfterError"]
            /\ UNCHANGED crossed
    /\ UNCHANGED <<clock, files>>
    /\ UNCHANGED otherThanTmp

\* lines 60-63 and 67-70: the four paths are unlinked; the call returns its
\* result or throws 'Pre-audit failed'
CleanedUp(c) ==
    /\ preCall[c].pc \in {"cleanup", "cleanupAfterError"}
    /\ files' = unlinkAll(files, PathsOf(preCall[c].ts))
    /\ crossed' = crossed \cup Crossings(files, PathsOf(preCall[c].ts), c, "delete")
    /\ preCall' = [preCall EXCEPT ![c].pc = IF preCall[c].pc = "cleanup" THEN "returned" ELSE "threw"]
    /\ UNCHANGED clock
    /\ UNCHANGED otherThanTmp

NextTmp ==
    \/ ClockTick
    \/ \E c \in PreAuditCalls : StartPreAudit(c)
    \/ \E c \in PreAuditCalls : HtmlWritten(c)
    \/ \E c \in PreAuditCalls : AssetsFetchedForChecker(c)
    \/ \E c \in PreAuditCalls : CssJsWritten(c)
    \/ \E c \in PreAuditCalls : CheckerRuns(c)
    \/ \E c \in PreAuditCalls : OutputRead(c)
    \/ \E c \in PreAuditCalls : CleanedUp(c)

SpecTmp == InitTmp /\ [][NextTmp]_vars

\* C27: no call of runPreAudit reads, overwrites or deletes a file of
\* another call, and what a call returns was computed from its own HTML,
\* CSS and JS, also when two calls start in the same millisecond.
C27_TempFilesIsolated ==
    /\ crossed = {}
    /\ \A c \in PreAuditCalls : preCall[c].pc = "returned" =>
          /\ preCall[c].result.owner = c
          /\ \A k \in InputKinds : preCall[c].result.from[k] = c

(***************************************************************************)
(* SpecImports: resolveCssImports (assetFetcher.js 111-132) as it is       *)
(* called by fetchExternalAssets (lines 164-168).  A stylesheet is known   *)
(* by its absolute URL, and its text by the URLs of its @import            *)
(* directives, in order.  What a URL serves is decided when it is fetched. *)
(* The recursion is a stack of calls, each with the sheet it resolves and  *)
(* the directives its loop has still to visit.                             *)
(***************************************************************************)
MaxSheets == 3       \* stylesheet URLs of the site

Urls == 1..MaxSheets

\* the combined text of the linked sheets (line 167) has no URL of its own
CombinedCss == 0

\* the @import directives of one text: none, one or two
ImportLists ==
    {<<>>} \cup {<<u>> : u \in Urls} \cup {<<u, v>> : u \in Urls, v \in Urls}

\* A faulty variant of the initial set, for sensitivity analysis: the
\* default value of the parameter visited (line 111) is used.
NewSetEmpty(urls) == {}

\* line 166: new Set(cssUrls)
NewSet(urls) == urls

Frame(sheet, list) == [sheet |-> sheet, left |-> list]

Range(f) == {f[i] : i \in DOMAIN f}

otherThanImports == <<earlyVars, watchVars, timerVars, tmpVars>>

\* lines 139-168: the linked sheets have been fetched and resolveCssImports
\* is called on their combined text
InitImports ==
    /\ MergeIdle
    /\ BudgetIdle
    /\ CacheIdle
    /\ ServerIdle
    /\ CompressIdle
    /\ PartitionIdle
    /\ WatchIdle
    /\ TimerIdle
    /\ TmpIdle
    /\ \E k \in 1..(MaxSheets - 1) : cssUrls = 1..k
    /\ \E list \in ImportLists : frames = <<Frame(CombinedCss, list)>>
    /\ visited = NewSet(cssUrls)
    /\ edges = {}
    /\ fetched = <<>>

\* the call of resolveCssImports that is running
Top == frames[Len(frames)]

\* the running call goes to its next directive
Advance == [frames EXCEPT ![Len(frames)].left = Tail(Top.left)]

\* lines 116-119: the URL of the directive is in visited; continue
SkipVisited ==
    /\ frames # <<>>
    /\ Top.left # <<>>
    /\ Head(Top.left) \in visited
    /\ frames' = Advance
    /\ edges' = edges \cup {<<Top.sheet, Head(Top.left), "skipped">>}
    /\ UNCHANGED <<cssUrls, visited, fetched>>
    /\ UNCHANGED otherThanImports

\* lines 120-123 with an empty result: the URL is added to visited and
\* fetched, and fetchAsset returns ''; the loop goes on
ImportFetchFails ==
    /\ frames # <<>>
    /\ Top.left # <<>>
    /\ Head(Top.left) \notin visited
    /\ visited' = visited \cup {Head(Top.left)}
    /\ fetched' = Append(fetched, Head(Top.left))
    /\ frames' = Advance
    /\ edges' = edges \cup {<<Top.sheet, Head(Top.left), "failed">>}
    /\ UNCHANGED cssUrls
    /\ UNCHANGED otherThanImports

\* lines 120-125: the URL is added to visited and fetched, fetchAsset
\* returns the text of the sheet, and resolveCssImports is called on it
\* with the same visited
ImportFetchedText(list) ==
    /\ frames # <<>>
    /\ Top.left # <<>>
    /\ Head(Top.left) \notin visited
    /\ visited' = visited \cup {Head(Top.left)}
    /\ fetched' = Append(fetched, Head(Top.left))
    /\ frames' = Append(Advance, Frame(Head(Top.left), list))
    /\ edges' = edges \cup {<<Top.sheet, Head(Top.left), "fetched">>}
    /\ UNCHANGED cssUrls
    /\ UNCHANGED otherThanImports

\* lines 116 and 131: no directive is left and the call returns
ResolveReturns ==
    /\ frames # <<>>
    /\ Top.left = <<>>
    /\ frames' = SubSeq(frames, 1, Len(frames) - 1)
    /\ UNCHANGED <<cssUrls, edges, visited, fetched>>
    /\ UNCHANGED otherThanImports

NextImports ==
    \/ SkipVisited
    \/ ImportFetchFails
    \/ \E list \in ImportLists : ImportFetchedText(list)
    \/ ResolveReturns

SpecImports == InitImports /\ [][NextImports]_vars

\* resolveCssImports is one async function: the event loop runs its next
\* step, and every fetchAsset call it awaits settles (lines 78-79)
SpecImportsLive == SpecImports /\ WF_vars(NextImports)

\* C30: resolveCssImports returns, whatever the sheets import, and it
\* fetches no URL twice and no URL of a linked stylesheet.
C30_ImportsTerminateOnce ==
    /\ [](/\ \A i, j \in 1..Len(fetched) : fetched[i] = fetched[j] => i = j
          /\ \A i \in 1..Len(fetched) : fetched[i] \notin cssUrls)
    /\ <>(frames = <<>>)

\* C30 witness: resolveCssImports has returned after it met a sheet that
\* imports itself, a sheet that imports the sheet it was imported by, and a
\* sheet that imports a linked stylesheet; each of the other URLs was
\* fetched once.
C30_Witness ==
    /\ frames = <<>>
    /\ Len(fetched) = MaxSheets - Cardinality(cssUrls)
    /\ \E v \in Range(fetched) : <<v, v, "skipped">> \in edges
    /\ \E v, w \in Range(fetched) :
          v # w /\ <<v, w, "fetched">> \in edges /\ <<w, v, "skipped">> \in edges
    /\ \E v \in Range(fetched), u \in cssUrls : <<v, u, "skipped">> \in edges

(***************************************************************************)
(* compressCSS and compressJS (claudeAudit.js 353-393).  A text is the     *)
(* sequence of its lines, joined by newlines, and every line is one of a   *)
(* few kinds of content that the replacements of the two functions tell    *)
(* apart.  Each replacement is applied to the lines as its regular         *)
(* expression applies to the text.  The kinds and their texts:             *)
(*   JS   code        f();                                                 *)
(*        comment     // note                                              *)
(*        long        a line of MinifiedLineMin characters                 *)
(*        longString  s="..."; with LongStringMin characters quoted        *)
(*        cutString   s="..."; with StringKeep characters and '...' quoted *)
(*        marker      // [minified line removed]                           *)
(*        bundle      // [minified bundle code removed]                    *)
(*        jsSource    // === https://x/a.js ===                            *)
(*   CSS  rule        a{color:red;}                                        *)
(*        comment     a block comment                                      *)
(*        dataUri     b{background:url(data:image/png;base64,...);}        *)
(*        dataUriCut  b{background:url(data:...);}                         *)
(*        vendor      d{-webkit-transition:all 1s;transition:all 1s;}      *)
(*        vendorCut   d{transition:all 1s;}                                *)
(*        kfShort     @keyframes a{}                                       *)
(*        kfLong      @keyframes a{from{opacity:0;}to{opacity:1;}}         *)
(*        kfCut       @keyframes a { ... }  (the body a comment)           *)
(*        kfTail      kfCut followed by to{opacity:1;}}                    *)
(*        longValue   e{box-shadow: v...v;} with LongValueMin characters   *)
(*        valueCut    e{box-shadow: v...v...;} with ValueKeep characters   *)
(*        cssSource   the comment  === https://x/a.css ===                 *)
(*   both blank       the empty line                                       *)
(* jsSource and cssSource are the lines fetchExternalAssets puts before    *)
(* the text of each fetched file (assetFetcher.js 159 and 175).            *)
(***************************************************************************)
MaxLines == 3        \* lines of an input text

MinifiedLineMin == 500
LongStringMin == 150
StringKeep == 60
LongValueMin == 300
ValueKeep == 120
DataUriMin == 50
MarkerLen == 26
BundleLen == 33
KeyframesStubLen == 26

JsInputLines == {"code", "comment", "long", "blank", "longString", "jsSource"}

CssInputLines == {"rule", "comment", "blank", "dataUri", "vendor", "kfShort",
                  "kfLong", "longValue", "cssSource"}

\* number of characters of a line
LineLen(l) ==
    CASE l = "blank"      -> 0
      [] l = "code"       -> 4
      [] l = "comment"    -> 7
      [] l = "long"       -> MinifiedLineMin
      [] l = "longString" -> 3 + LongStringMin + 2
      [] l = "cutString"  -> 3 + StringKeep + 3 + 2
      [] l = "marker"     -> MarkerLen
      [] l = "bundle"     -> BundleLen
      [] l = "rule"       -> 13
      [] l = "dataUri"    -> 22 + 17 + DataUriMin + 3
      [] l = "dataUriCut" -> 28
      [] l = "vendor"     -> 47
      [] l = "vendorCut"  -> 21
      [] l = "kfShort"    -> 14
      [] l = "kfLong"     -> 44
      [] l = "kfCut"      -> KeyframesStubLen
      [] l = "kfTail"     -> KeyframesStubLen + 15
      [] l = "longValue"  -> 14 + LongValueMin + 2
      [] l = "valueCut"   -> 14 + ValueKeep + 3 + 2
      [] l = "jsSource"   -> 25
      [] l = "cssSource"  -> 29

RECURSIVE SumLen(_)
SumLen(ls) == IF ls = <<>> THEN 0 ELSE LineLen(Head(ls)) + SumLen(Tail(ls))

\* text.length: the lines and the newlines between them
TextLength(ls) == IF ls = <<>> THEN 0 ELSE SumLen(ls) + Len(ls) - 1

\* the number of blank lines a text starts with
RECURSIVE LeadingBlanks(_)
LeadingBlanks(ls) ==
    IF ls = <<>> \/ Head(ls) # "blank" THEN 0
    ELSE 1 + LeadingBlanks(Tail(ls))

\* the number of marker lines a text starts with
RECURSIVE LeadingMarkers(_)
LeadingMarkers(ls) ==
    IF ls = <<>> \/ Head(ls) # "marker" THEN 0
    ELSE 1 + LeadingMarkers(Tail(ls))

\* a line that starts with //
LineComment(l) == l \in {"comment", "marker", "bundle", "jsSource"}

Drop(ls, k) == SubSeq(ls, k + 1, Len(ls))

\* line 379: replace(/^\s*\/\/.*$/gm, ''); \s* also takes the blank lines
\* before the comment line
RECURSIVE StripLineComments(_)
StripLineComments(ls) ==
    IF ls = <<>> THEN <<>>
    ELSE LET k == LeadingBlanks(ls) IN
         IF k > 0
         THEN IF k < Len(ls) /\ LineComment(ls[k + 1])
              THEN <<"blank">> \o StripLineComments(Drop(ls, k + 1))
              ELSE SubSeq(ls, 1, k) \o StripLineComments(Drop(ls, k))
         ELSE IF LineComment(Head(ls))
              THEN <<"blank">> \o StripLineComments(Tail(ls))
              ELSE <<Head(ls)>> \o StripLineComments(Tail(ls))

\* line 383: replace(/^.{500,}$/gm, '// [minified line removed]')
RemoveMinified(ls) ==
    [i \in 1..Len(ls) |-> IF LineLen(ls[i]) >= MinifiedLineMin THEN "marker" ELSE ls[i]]

\* line 385: two or more consecutive markers become one bundle marker
RECURSIVE DedupeMarkers(_)
DedupeMarkers(ls) ==
    IF ls = <<>> THEN <<>>
    ELSE LET k == LeadingMarkers(ls) IN
         IF k >= 2 THEN <<"bundle">> \o DedupeMarkers(Drop(ls, k))
         ELSE <<Head(ls)>> \o DedupeMarkers(Tail(ls))

\* line 387: a long string literal keeps its first StringKeep characters
TruncateStrings(ls) ==
    [i \in 1..Len(ls) |-> IF ls[i] = "longString" THEN "cutString" ELSE ls[i]]

\* lines 367-370 and 389-392: the empty lines are removed and the text is
\* trimmed; the empty text is one blank line
CollapseWhitespace(ls) ==
    LET r == SelectSeq(ls, LAMBDA l : l # "blank")
    IN IF r = <<>> THEN <<"blank">> ELSE r

compressJS(js) ==
    CollapseWhitespace(
        TruncateStrings(DedupeMarkers(RemoveMinified(StripLineComments(js)))))

\* lines 357-365 on one line.  A block comment is removed (the body of the
\* keyframes stub too, which line 363 then writes again); a data URI and a
\* long value are cut; the prefixed declaration is removed; of a
\* @keyframes rule the text up to the first closing brace is replaced.
CompressCssLine(l) ==
    CASE l = "comment"   -> "blank"
      [] l = "cssSource" -> "blank"
      [] l = "dataUri"   -> "dataUriCut"
      [] l = "vendor"    -> "vendorCut"
      [] l = "kfShort"   -> "kfCut"
      [] l = "kfLong"    -> "kfTail"
      [] l = "longValue" -> "valueCut"
      [] OTHER           -> l

compressCSS(css) ==
    CollapseWhitespace([i \in 1..Len(css) |-> CompressCssLine(css[i])])

compress(lg, text) == IF lg = "css" THEN compressCSS(text) ELSE compressJS(text)

InputTexts(lines) == UNION {[1..n -> lines] : n \in 1..MaxLines}

InitCompress ==
    /\ MergeIdle
    /\ BudgetIdle
    /\ CacheIdle
    /\ ServerIdle
    /\ PartitionIdle
    /\ LateIdle
    /\ lang \in {"css", "js"}
    /\ rawText \in InputTexts(IF lang = "css" THEN CssInputLines ELSE JsInputLines)
    /\ once = <<"blank">>
    /\ twice = <<"blank">>
    /\ compressPc = "input"

otherThanCompress == <<mergeVars, budgetVars, cacheVars, serverVars,
                       partitionVars, lateVars>>

\* lines 395-396: processedCSS = compressCSS(rawCSS), the same for JS
CompressOnce ==
    /\ compressPc = "input"
    /\ once' = compress(lang, rawText)
    /\ compressPc' = "once"
    /\ UNCHANGED <<lang, rawText, twice>>
    /\ UNCHANGED otherThanCompress

\* the function applied to its own output
CompressAgain ==
    /\ compressPc = "once"
    /\ twice' = compress(lang, once)
    /\ compressPc' = "twice"
    /\ UNCHANGED <<lang, rawText, once>>
    /\ UNCHANGED otherThanCompress

NextCompress == CompressOnce \/ CompressAgain

SpecCompress == InitCompress /\ [][NextCompress]_vars

\* C17: compressing a compressed text changes nothing.
C17_Idempotent == compressPc = "twice" => twice = once

\* C18: a compressed text is no longer than the text it was made from.
C18_NeverLonger ==
    compressPc # "input" => TextLength(once) <= TextLength(rawText)

\* the boundary lines of a text
SourceMarkers(text) ==
    {i \in 1..Len(text) : text[i] \in {"cssSource", "jsSource"}}

\* C23: every boundary line that fetchExternalAssets put before the text
\* of a file is still present in the compressed text: the output of
\* compressCSS or compressJS holds as many boundary lines as its input.
C23_MarkersSurvive ==
    compressPc # "input" =>
        Cardinality(SourceMarkers(once)) = Cardinality(SourceMarkers(rawText))

(***************************************************************************)
(* The two prompt lists of runClaudeAudit (claudeAudit.js 252-267).        *)
(***************************************************************************)
\* What the checker says about an item: nothing, NEEDS_AI_REVIEW without
\* or with a note, a verdict with the automated flag, a verdict without it.
PartChoices == {"omitted", "review", "reviewHint", "auto", "unflagged"}

PartFinding(i, ch) ==
    [check |-> i, check_en |-> i,
     status |-> CASE ch \in {"review", "reviewHint"} -> "NEEDS_AI_REVIEW"
                  [] ch = "auto" -> "pass"
                  [] OTHER -> "fail",
     automated |-> (ch = "auto"),
     note |-> IF ch = "reviewHint" THEN "hint" ELSE ""]

\* the findings of category cat, in checklist order
RECURSIVE PartList(_, _, _)
PartList(i, cat, choice) ==
    IF i > NItems THEN <<>>
    ELSE IF CategoryOf(i) = cat /\ choice[i] # "omitted"
         THEN <<PartFinding(i, choice[i])>> \o PartList(i + 1, cat, choice)
         ELSE PartList(i + 1, cat, choice)

\* Object.entries(preAuditData.findings): the categories in key order
CategoryOrder == <<"ux_nav", "ui_color">>

\* lines 259-262: the entries pushed to needsAI for one category
RECURSIVE NeedsAIOf(_, _)
NeedsAIOf(cat, findings) ==
    IF findings = <<>> THEN <<>>
    ELSE LET f == Head(findings) IN
         (IF f.status = "NEEDS_AI_REVIEW"
          THEN <<[category |-> cat,
                  check |-> IF f.check_en # Undef THEN f.check_en ELSE f.check,
                  hint |-> f.note]>>
          ELSE <<>>) \o NeedsAIOf(cat, Tail(findings))

\* lines 263-265: the entries pushed to automated for one category
RECURSIVE AutomatedOf(_, _)
AutomatedOf(cat, findings) ==
    IF findings = <<>> THEN <<>>
    ELSE LET f == Head(findings) IN
         (IF f.status # "NEEDS_AI_REVIEW" /\ f.automated
          THEN <<[category |-> cat,
                  check |-> IF f.check_en # Undef THEN f.check_en ELSE f.check,
                  status |-> f.status]>>
          ELSE <<>>) \o AutomatedOf(cat, Tail(findings))

\* the outer loop of line 257, for needsAI
RECURSIVE BuildNeedsAI(_, _)
BuildNeedsAI(cats, findings) ==
    IF cats = <<>> THEN <<>>
    ELSE NeedsAIOf(Head(cats), findings[Head(cats)])
             \o BuildNeedsAI(Tail(cats), findings)

\* the outer loop of line 257, for automated
RECURSIVE BuildAutomated(_, _)
BuildAutomated(cats, findings) ==
    IF cats = <<>> THEN <<>>
    ELSE AutomatedOf(Head(cats), findings[Head(cats)])
             \o BuildAutomated(Tail(cats), findings)

InitPartition ==
    /\ MergeIdle
    /\ BudgetIdle
    /\ CacheIdle
    /\ ServerIdle
    /\ CompressIdle
    /\ LateIdle
    /\ \E choice \in [Items -> PartChoices] :
          checkerOut = [c \in Categories |-> PartList(1, c, choice)]
    /\ needsAI = <<>>
    /\ automated = <<>>
    /\ partPc = "input"

\* lines 252-267: the two lists are built
Partition ==
    /\ partPc = "input"
    /\ needsAI' = BuildNeedsAI(CategoryOrder, checkerOut)
    /\ automated' = BuildAutomated(CategoryOrder, checkerOut)
    /\ partPc' = "done"
    /\ UNCHANGED checkerOut
    /\ UNCHANGED <<mergeVars, budgetVars, cacheVars, serverVars, compressVars,
                   lateVars>>

NextPartition == Partition

SpecPartition == InitPartition /\ [][NextPartition]_vars

\* the number of entries of a list that name item i
EntriesFor(list, i) == Cardinality({k \in 1..Len(list) : list[k].check = i})

\* C19: every checklist item has exactly one entry in the two lists
\* together.
C19_PartitionTotal ==
    partPc = "done" =>
        \A i \in Items : EntriesFor(needsAI, i) + EntriesFor(automated, i) = 1

====
